---- MODULE Spec2Model ----
(***************************************************************************)
(* The question-answering pipeline of routes_chat.py (ask_question) with   *)
(* the tables it reads and writes, the similarity and confidence functions *)
(* of openai_service.py, the handlers of routes_users.py and              *)
(* routes_documents.py that change or read the access relation, and the    *)
(* chat_history handlers of routes_chat.py (history, feedback, clear).     *)
(*                                                                         *)
(* Conventions                                                             *)
(*  - an Optional value is a set with at most one element ({} is None);    *)
(*  - Optional[List[str]] filters are sets: the code only tests their      *)
(*    truthiness and membership, and None and [] take the same branch;     *)
(*  - a text (answer, message) is a sequence of words;                     *)
(*  - a similarity is an exact fraction <<num, den>> with den > 0: the     *)
(*    embeddings of the model have integer norms, so the float the code    *)
(*    computes is that fraction;                                           *)
(*  - a confidence is counted in tenths of a percent (900 is 90.0).        *)
(***************************************************************************)
EXTENDS Integers, Sequences, FiniteSets, TLC

VARIABLES
    user_categories,      \* table user_categories: set of <<user_id, category_id>>
    document_categories,  \* table document_categories: set of <<document_id, category_id>>
    documents,            \* table documents: set of rows
    document_embeddings,  \* table document_embeddings: rows in storage order
    chat_history,         \* table chat_history: rows in insertion order
    clock,                \* datetime.now()
    pc,                   \* position of the ask_question request in flight
    current_user,         \* its TokenData
    question,             \* its ChatQuestion
    user_category_ids,    \* locals of ask_question, named as in the code
    allowed_categories,
    question_embedding,
    allowed_doc_ids,
    top_chunks,
    filtered_chunks,
    generated,            \* (answer, confidence, sources) after generate_answer
    context_chunks,       \* what the last generate_answer call was given
    response,             \* what the request returned
    user_update,          \* the update_user request in flight, if any
    next_chat_id,         \* the id the database gives the next chat_history row
    ledger_before,        \* chat_history as it was when the ask request arrived (history)
    feedback_request,     \* the submit_feedback request in flight, if any
    history_result,       \* the last get_chat_history request and what it returned
    feedback_other,       \* a second submit_feedback request in flight, if any
    document_delete,      \* the delete_document request in flight, if any
    calls                 \* the provider calls the ask request has made (history)

dbVars  == <<user_categories, document_categories, documents, document_embeddings>>
reqVars == <<current_user, question>>
locVars == <<user_category_ids, allowed_categories, question_embedding,
             allowed_doc_ids, top_chunks, filtered_chunks, generated, context_chunks, calls>>
askVars == <<pc, reqVars, locVars, response>>
chatVars == <<feedback_request, history_result, feedback_other, document_delete>>
ledgerVars == <<next_chat_id, ledger_before, chatVars>>
vars    == <<dbVars, chat_history, clock, askVars, user_update, ledgerVars>>

-----------------------------------------------------------------------------
(* Bounds and program constants *)

MaxChunks == 6      \* rows of document_embeddings in the ranking scenarios
MaxRecords == 2     \* rows the ask requests of the ledger scenarios may insert
MaxClock == 64      \* the latest datetime.now() of the ledger scenarios

TopK      == 5      \* chunk_similarities[:5]
FloorNum  == 7      \* similarity > 0.7
FloorDen  == 10
UncertainCap == 300 \* min(confidence, 30.0), in tenths
HistoryDays == 30   \* timedelta(days=30)

Users      == {"u1", "adm"}
Employees  == {"u1"}
Categories == {"c1", "c2"}
Docs       == {"d1", "d2"}
FileTypes  == {"pdf", "docx"}
Dates      == 1..3

Role(u) == IF u = "adm" THEN "admin" ELSE "medewerker"
TokenData(u) == [user_id |-> u, role |-> Role(u)]

\* Embeddings of norm 5 or 0, and one of the wrong dimension (VBad).
VHigh == <<3, 4>>
VMid  == <<4, 3>>
VLow  == <<5, 0>>
VZero == <<0, 0>>
VUp   == <<0, 5>>
VBad  == <<5>>

\* Embeddings of norm 100 and their cosines with the unit vector VUnit
V90   == <<90, 43, 7, 1, 1>>
V85   == <<85, 50, 15, 7, 1>>
V78   == <<78, 62, 6, 6, 0>>
V72   == <<72, 68, 8, 8, 8>>
V60   == <<60, 80, 0, 0, 0>>
VUnit == <<1, 0, 0, 0, 0>>

-----------------------------------------------------------------------------
(* Arithmetic helpers *)

Abs(n) == IF n < 0 THEN -n ELSE n

RECURSIVE GCD(_, _)
GCD(a, b) == IF b = 0 THEN a ELSE GCD(b, a % b)

RECURSIVE SumSeq(_)
SumSeq(s) == IF s = <<>> THEN 0 ELSE Head(s) + SumSeq(Tail(s))

\* np.dot of two vectors of the same length
Dot(v, w) == SumSeq([i \in DOMAIN v |-> v[i] * w[i]])

\* np.linalg.norm, for the vectors whose norm is an integer
Norm(v) == CHOOSE r \in 0..SumSeq([i \in DOMAIN v |-> Abs(v[i])]) : r * r = Dot(v, v)

\* a < b, a > b on fractions with positive denominators
FracGt(a, b) == a[1] * b[2] > b[1] * a[2]
FracAdd(a, b) ==
    LET n == a[1] * b[2] + b[1] * a[2]
        d == a[2] * b[2]
        g == GCD(Abs(n), d)
    IN  <<n \div g, d \div g>>

RECURSIVE FracSum(_)
FracSum(s) == IF s = <<>> THEN <<0, 1>> ELSE FracAdd(Head(s), FracSum(Tail(s)))

\* mutant: the mean is rounded down
RoundHalfEven_Floor(n, d) == n \div d

\* round(n / d) to an integer, ties to even, as Python's round; n >= 0, d > 0
RoundHalfEven(n, d) ==
    LET q == n \div d
        r == n % d
    IN  IF 2 * r < d THEN q
        ELSE IF 2 * r > d THEN q + 1
        ELSE IF q % 2 = 0 THEN q ELSE q + 1

-----------------------------------------------------------------------------
(* openai_service.py *)

\* np.dot raises ValueError on vectors of different lengths
DimensionMismatch(vec1, vec2) == Len(vec1) # Len(vec2)

\* mutant: the zero-norm test of lines 132-133 is missing
CosineSimilarity_NoZeroTest(vec1, vec2) == <<Dot(vec1, vec2), Norm(vec1) * Norm(vec2)>>

CosineSimilarity(vec1, vec2) ==
    LET dot_product == Dot(vec1, vec2)
        norm1 == Norm(vec1)
        norm2 == Norm(vec2)
    IN  IF norm1 = 0 \/ norm2 = 0
        THEN <<0, 1>>
        ELSE <<dot_product, norm1 * norm2>>

LowerWord(w) ==
    CASE w = "Ik"  -> "ik"
      [] w = "Dat" -> "dat"
      [] w = "Het" -> "het"
      [] w = "Geen" -> "geen"
      [] w = "Deze" -> "deze"
      [] w = "Informatie" -> "informatie"
      [] OTHER -> w

Lower(text) == [i \in DOMAIN text |-> LowerWord(text[i])]

\* phrase in text, on words
Contains(text, phrase) ==
    \E i \in 0..(Len(text) - Len(phrase)) :
        \A j \in 1..Len(phrase) : text[i + j] = phrase[j]

UncertaintyPhrases ==
    { <<"kan", "niet", "beantwoorden">>,
      <<"niet", "in", "de", "beschikbare">>,
      <<"weet", "ik", "niet">>,
      <<"geen", "informatie">> }

\* mutant: the best similarity is taken, not the mean
Confidence_Best(chunks, answer) ==
    RoundHalfEven(1000 * chunks[1].similarity[1], chunks[1].similarity[2])

\* the confidence generate_answer returns with the answer, in tenths
Confidence(chunks, answer) ==
    LET total == FracSum([i \in DOMAIN chunks |-> chunks[i].similarity])
        base  == RoundHalfEven(1000 * total[1], total[2] * Len(chunks))
    IN  IF \E phrase \in UncertaintyPhrases : Contains(Lower(answer), phrase)
        THEN IF base < UncertainCap THEN base ELSE UncertainCap
        ELSE base

-----------------------------------------------------------------------------
(* Rows and responses *)

DocRow(id, file_type, upload_date, expiry_date) ==
    [id |-> id, title |-> <<"title", id>>, file_url |-> <<"url", id>>,
     file_type |-> file_type, upload_date |-> upload_date, expiry_date |-> expiry_date,
     uploaded_by |-> "adm"]

EmbeddingRow(document_id, chunk_text, embedding) ==
    [document_id |-> document_id, chunk_text |-> chunk_text, embedding |-> embedding]

ChatQuestion(category_filters, date_filter_start, date_filter_end, file_type_filters) ==
    [question |-> "q", category_filters |-> category_filters,
     date_filter_start |-> date_filter_start, date_filter_end |-> date_filter_end,
     file_type_filters |-> file_type_filters]

SourceDocument(chunk) ==
    [document_id |-> chunk.document_id, document_title |-> chunk.document_title,
     document_url |-> chunk.document_url, file_type |-> chunk.file_type]

ChatResponse(answer, confidence, sources) ==
    [status |-> 200, answer |-> answer, confidence |-> confidence, sources |-> sources,
     detail |-> ""]

HTTPException(status_code, detail) ==
    [status |-> status_code, answer |-> <<>>, confidence |-> 0, sources |-> <<>>,
     detail |-> detail]

NoResponse == [status |-> 0, answer |-> <<>>, confidence |-> 0, sources |-> <<>>, detail |-> ""]

\* a row of chat_history as inserted: feedback is NULL, created_at the database's now()
ChatRow(user_id, q, answer, confidence_score, source_documents) ==
    [id |-> next_chat_id, user_id |-> user_id, question |-> q,
     answer |-> answer, confidence_score |-> confidence_score,
     source_documents |-> source_documents, feedback |-> {}, created_at |-> clock]

\* The fixed answers of ask_question (the diaeresis of "categorieen" and
\* "geindexeerd" is dropped).
MsgNoCategories ==
    <<"Je", "hebt", "nog", "geen", "toegang", "tot", "documentcategorieen.",
      "Neem", "contact", "op", "met", "de", "administrator.">>
MsgNoDocuments ==
    <<"Er", "zijn", "nog", "geen", "documenten", "beschikbaar", "in", "je", "categorieen.">>
MsgNotIndexed ==
    <<"Er", "zijn", "nog", "geen", "documenten", "geindexeerd.",
      "Probeer", "het", "later", "opnieuw.">>
MsgNoEvidenceStored ==
    <<"Ik", "kan", "deze", "vraag", "niet", "beantwoorden", "op", "basis", "van",
      "de", "beschikbare", "documenten.">>
MsgNoEvidence ==
    <<"Ik", "kan", "helaas", "geen", "relevant", "antwoord", "vinden", "in",
      "de", "beschikbare", "documenten.">>
\* mutant: the answer of the no-evidence return is reused
MsgNoMatch_Reused == MsgNoEvidence

MsgNoMatch ==
    <<"Geen", "documenten", "gevonden", "die", "voldoen", "aan", "je", "filters.">>
MsgEmptyContext ==
    <<"Ik", "kan", "helaas", "geen", "antwoord", "vinden", "op", "je", "vraag",
      "in", "de", "beschikbare", "documenten.">>

\* What the answer generator may return.
PlainAnswer == <<"Het", "antwoord", "is", "ja.">>
PlainAnswers == {PlainAnswer}
\* the answer the system prompt of generate_answer asks for when the context
\* does not hold the answer (openai_service.py line 49)
PromptedAnswer == <<"Deze", "informatie", "staat", "niet", "in", "mijn", "kennisbank.">>
Answers ==
    { PlainAnswer,
      PromptedAnswer,
      <<"Dat", "weet", "ik", "niet.">>,
      <<"Ik", "weet", "het", "niet">>,
      <<"Geen", "Informatie", "gevonden.">> }

-----------------------------------------------------------------------------
(* routes_chat.py: the stages of ask_question as functions of what they read *)

UserCategoryIds(user_id) == {uc[2] : uc \in {x \in user_categories : x[1] = user_id}}

\* mutant: the early return of lines 26-31 is missing
NoCategories_Never(ids) == FALSE

NoCategories(ids) == ids = {}

\* mutant: the filter is used as given, without "if cat in user_category_ids"
AllowedCategories_Unchecked(category_filters, ids) ==
    IF category_filters # {} THEN category_filters ELSE ids

\* mutant: no fallback to the user's categories when the intersection is empty
AllowedCategories_NoFallback(category_filters, ids) ==
    IF category_filters # {}
    THEN {cat \in category_filters : cat \in ids}
    ELSE ids

AllowedCategories(category_filters, ids) ==
    IF category_filters # {}
    THEN LET allowed == {cat \in category_filters : cat \in ids}
         IN  IF allowed = {} THEN ids ELSE allowed
    ELSE ids

\* mutant: a document must be linked to every category, not to any
AllowedDocIds_Every(categories) ==
    {dc[1] : dc \in {x \in document_categories :
                        \A c \in categories : <<x[1], c>> \in document_categories}}

AllowedDocIds(categories) ==
    {dc[1] : dc \in {x \in document_categories : x[2] \in categories}}

\* lines 23-54 as a function of the categories read and the filter: the
\* documents whose embeddings the request fetches
AskAccessSet(ids, category_filters) ==
    IF NoCategories(ids) THEN {}
    ELSE AllowedDocIds(AllowedCategories(category_filters, ids))

EmbeddingsOf(doc_ids) ==
    SelectSeq(document_embeddings, LAMBDA row : row.document_id \in doc_ids)

AboveFloor(similarity) == similarity[1] * FloorDen > FloorNum * similarity[2]

\* the loop of lines 66-85: a row whose similarity cannot be computed is skipped
RECURSIVE ChunkSimilarities(_, _)
ChunkSimilarities(q_embedding, rows) ==
    IF rows = <<>> THEN <<>>
    ELSE LET chunk_data == Head(rows)
             rest == ChunkSimilarities(q_embedding, Tail(rows))
         IN  IF DimensionMismatch(q_embedding, chunk_data.embedding) THEN rest
             ELSE LET similarity == CosineSimilarity(q_embedding, chunk_data.embedding)
                  IN  IF AboveFloor(similarity)
                      THEN <<[document_id |-> chunk_data.document_id,
                              chunk_text |-> chunk_data.chunk_text,
                              similarity |-> similarity]>> \o rest
                      ELSE rest

\* mutant: an unstable sort, a chunk goes before the chunks of equal similarity
RECURSIVE InsertDescending_TiesFirst(_, _)
InsertDescending_TiesFirst(sorted, chunk) ==
    IF sorted = <<>> THEN <<chunk>>
    ELSE IF ~FracGt(Head(sorted).similarity, chunk.similarity)
         THEN <<chunk>> \o sorted
         ELSE <<Head(sorted)>> \o InsertDescending_TiesFirst(Tail(sorted), chunk)

\* list.sort(key=similarity, reverse=True): stable, equal keys keep their order
RECURSIVE InsertDescending(_, _)
InsertDescending(sorted, chunk) ==
    IF sorted = <<>> THEN <<chunk>>
    ELSE IF FracGt(chunk.similarity, Head(sorted).similarity)
         THEN <<chunk>> \o sorted
         ELSE <<Head(sorted)>> \o InsertDescending(Tail(sorted), chunk)

RECURSIVE SortDescending(_)
SortDescending(chunks) ==
    IF chunks = <<>> THEN <<>>
    ELSE InsertDescending(SortDescending(SubSeq(chunks, 1, Len(chunks) - 1)),
                          chunks[Len(chunks)])

\* mutant: no truncation
Truncate_All(chunks, n) == chunks

Truncate(chunks, n) == SubSeq(chunks, 1, IF Len(chunks) < n THEN Len(chunks) ELSE n)

TopChunks(q_embedding, rows) ==
    Truncate(SortDescending(ChunkSimilarities(q_embedding, rows)), TopK)

\* mutant: the expiry test of lines 121-122 is missing
PassesFilters_NoExpiry(doc, q, now) ==
    /\ ~(q.date_filter_start # {} /\ \E start \in q.date_filter_start : doc.upload_date < start)
    /\ ~(q.date_filter_end # {} /\ \E end \in q.date_filter_end : doc.upload_date > end)
    /\ ~(q.file_type_filters # {} /\ doc.file_type \notin q.file_type_filters)

\* lines 115-122: the chunk is kept when none of the four tests skips it
PassesFilters(doc, q, now) ==
    /\ ~(q.date_filter_start # {} /\ \E start \in q.date_filter_start : doc.upload_date < start)
    /\ ~(q.date_filter_end # {} /\ \E end \in q.date_filter_end : doc.upload_date > end)
    /\ ~(q.file_type_filters # {} /\ doc.file_type \notin q.file_type_filters)
    /\ ~(doc.expiry_date # {} /\ \E expiry \in doc.expiry_date : expiry < now)

\* mutant: a chunk whose document row is missing is kept
RECURSIVE FilterChunks_KeepMissing(_, _, _, _)
FilterChunks_KeepMissing(chunks, docs_result, q, now) ==
    IF chunks = <<>> THEN <<>>
    ELSE LET chunk == Head(chunks)
             found == {doc \in docs_result : doc.id = chunk.document_id}
             rest == FilterChunks_KeepMissing(Tail(chunks), docs_result, q, now)
         IN  IF found = {}
             THEN <<[document_id |-> chunk.document_id,
                     chunk_text |-> chunk.chunk_text,
                     similarity |-> chunk.similarity,
                     document_title |-> <<"title", chunk.document_id>>,
                     document_url |-> <<"url", chunk.document_id>>,
                     file_type |-> "pdf"]>> \o rest
             ELSE LET doc == CHOOSE d \in found : TRUE
                  IN  IF PassesFilters(doc, q, now)
                      THEN <<[document_id |-> chunk.document_id,
                              chunk_text |-> chunk.chunk_text,
                              similarity |-> chunk.similarity,
                              document_title |-> doc.title,
                              document_url |-> doc.file_url,
                              file_type |-> doc.file_type]>> \o rest
                      ELSE rest

\* lines 109-127 over the rows the documents query returned
RECURSIVE FilterChunks(_, _, _, _)
FilterChunks(chunks, docs_result, q, now) ==
    IF chunks = <<>> THEN <<>>
    ELSE LET chunk == Head(chunks)
             found == {doc \in docs_result : doc.id = chunk.document_id}
             rest == FilterChunks(Tail(chunks), docs_result, q, now)
         IN  IF found = {} THEN rest
             ELSE LET doc == CHOOSE d \in found : TRUE
                  IN  IF PassesFilters(doc, q, now)
                      THEN <<[document_id |-> chunk.document_id,
                              chunk_text |-> chunk.chunk_text,
                              similarity |-> chunk.similarity,
                              document_title |-> doc.title,
                              document_url |-> doc.file_url,
                              file_type |-> doc.file_type]>> \o rest
                      ELSE rest

\* lines 142-152
RECURSIVE SourcesFrom(_, _)
SourcesFrom(chunks, seen_doc_ids) ==
    IF chunks = <<>> THEN <<>>
    ELSE IF Head(chunks).document_id \notin seen_doc_ids
         THEN <<SourceDocument(Head(chunks))>>
              \o SourcesFrom(Tail(chunks), seen_doc_ids \cup {Head(chunks).document_id})
         ELSE SourcesFrom(Tail(chunks), seen_doc_ids)

\* mutant: one source per chunk, seen_doc_ids is not consulted
Sources_PerChunk(chunks) == [i \in DOMAIN chunks |-> SourceDocument(chunks[i])]

Sources(chunks) == SourcesFrom(chunks, {})

-----------------------------------------------------------------------------
(* routes_chat.py: ask_question, one action per database or provider call *)

\* the calls of generate_embedding and generate_answer made by the request
NoCalls == [embedding |-> 0, generate |-> 0]

\* The request arrives: get_current_user has validated the token.
AskStart(users, questions) ==
    /\ pc = "idle"
    /\ \E u \in users, q \in questions :
            /\ current_user' = TokenData(u)
            /\ question' = q
    /\ pc' = "user_categories"
    /\ ledger_before' = chat_history
    /\ UNCHANGED <<dbVars, chat_history, clock, locVars, response, user_update,
                   next_chat_id, chatVars>>

\* lines 23-38
AskUserCategories ==
    /\ pc = "user_categories"
    /\ LET ids == UserCategoryIds(current_user.user_id)
       IN  /\ user_category_ids' = ids
           /\ IF NoCategories(ids)
              THEN /\ response' = ChatResponse(MsgNoCategories, 0, <<>>)
                   /\ pc' = "done"
                   /\ UNCHANGED allowed_categories
              ELSE /\ allowed_categories' = AllowedCategories(question.category_filters, ids)
                   /\ pc' = "embedding"
                   /\ UNCHANGED response
    /\ UNCHANGED <<dbVars, chat_history, clock, reqVars, question_embedding, allowed_doc_ids,
                   top_chunks, filtered_chunks, generated, context_chunks, calls,
                   user_update, ledgerVars>>

\* mutant: the question is recorded before it is embedded
AskEmbedding_Recorded(vectors) ==
    /\ pc = "embedding"
    /\ calls' = [calls EXCEPT !.embedding = @ + 1]
    /\ chat_history' = Append(chat_history,
            ChatRow(current_user.user_id, question.question, <<>>, 0, <<>>))
    /\ \/ /\ \E v \in vectors : question_embedding' = v
          /\ pc' = "document_categories"
          /\ UNCHANGED response
       \/ /\ response' = HTTPException(500, "Failed to process question")
          /\ pc' = "done"
          /\ UNCHANGED question_embedding
    /\ UNCHANGED <<dbVars, clock, reqVars, user_category_ids, allowed_categories,
                   allowed_doc_ids, top_chunks, filtered_chunks, generated, context_chunks,
                   user_update, ledgerVars>>

\* lines 40-44: the provider answers with a vector, or fails
AskEmbedding(vectors) ==
    /\ pc = "embedding"
    /\ calls' = [calls EXCEPT !.embedding = @ + 1]
    /\ \/ /\ \E v \in vectors : question_embedding' = v
          /\ pc' = "document_categories"
          /\ UNCHANGED response
       \/ /\ response' = HTTPException(500, "Failed to process question")
          /\ pc' = "done"
          /\ UNCHANGED question_embedding
    /\ UNCHANGED <<dbVars, chat_history, clock, reqVars, user_category_ids, allowed_categories,
                   allowed_doc_ids, top_chunks, filtered_chunks, generated, context_chunks,
                   user_update, ledgerVars>>

\* lines 46-54
AskDocumentCategories ==
    /\ pc = "document_categories"
    /\ allowed_doc_ids' = AllowedDocIds(allowed_categories)
    /\ IF allowed_doc_ids' = {}
       THEN /\ response' = ChatResponse(MsgNoDocuments, 0, <<>>)
            /\ pc' = "done"
       ELSE /\ pc' = "embeddings"
            /\ UNCHANGED response
    /\ UNCHANGED <<dbVars, chat_history, clock, reqVars, user_category_ids, allowed_categories,
                   question_embedding, top_chunks, filtered_chunks, generated, context_chunks,
                   calls,
                   user_update, ledgerVars>>

\* lines 56-88 (line 65 reads "chunk_similarities = [:10]"; the loop appends to
\* it, so it starts as the empty list)
AskEmbeddings ==
    /\ pc = "embeddings"
    /\ LET data == EmbeddingsOf(allowed_doc_ids)
       IN  IF data = <<>>
           THEN /\ response' = ChatResponse(MsgNotIndexed, 0, <<>>)
                /\ pc' = "done"
                /\ UNCHANGED top_chunks
           ELSE /\ top_chunks' = TopChunks(question_embedding, data)
                /\ pc' = IF top_chunks' = <<>> THEN "no_evidence" ELSE "documents"
                /\ UNCHANGED response
    /\ UNCHANGED <<dbVars, chat_history, clock, reqVars, user_category_ids, allowed_categories,
                   question_embedding, allowed_doc_ids, filtered_chunks, generated,
                   context_chunks, calls, user_update, ledgerVars>>

\* lines 90-103: the insert is not guarded, so its failure ends the request
AskNoEvidence ==
    /\ pc = "no_evidence"
    /\ \/ /\ chat_history' = Append(chat_history,
                ChatRow(current_user.user_id, question.question, MsgNoEvidenceStored, 0, <<>>))
          /\ next_chat_id' = next_chat_id + 1
          /\ response' = ChatResponse(MsgNoEvidence, 0, <<>>)
       \/ /\ response' = HTTPException(500, "Internal Server Error")
          /\ UNCHANGED <<chat_history, next_chat_id>>
    /\ pc' = "done"
    /\ UNCHANGED <<dbVars, clock, reqVars, locVars, user_update, ledger_before, chatVars>>

\* lines 105-134
AskDocuments ==
    /\ pc = "documents"
    /\ LET doc_ids == {top_chunks[i].document_id : i \in DOMAIN top_chunks}
           docs_result == {doc \in documents : doc.id \in doc_ids}
       IN  filtered_chunks' = FilterChunks(top_chunks, docs_result, question, clock)
    /\ IF filtered_chunks' = <<>>
       THEN /\ response' = ChatResponse(MsgNoMatch, 0, <<>>)
            /\ pc' = "done"
       ELSE /\ pc' = "generate"
            /\ UNCHANGED response
    /\ UNCHANGED <<dbVars, chat_history, clock, reqVars, user_category_ids, allowed_categories,
                   question_embedding, allowed_doc_ids, top_chunks, generated, context_chunks,
                   calls,
                   user_update, ledgerVars>>

\* openai_service.py generate_answer, lines 28-91
GenerateAnswer(chunks, answer) ==
    IF chunks = <<>>
    THEN [answer |-> MsgEmptyContext, confidence |-> 0]
    ELSE [answer |-> answer, confidence |-> Confidence(chunks, answer)]

\* mutant: a failed generation is tried once more
AskGenerate_Retry(answers) ==
    /\ pc = "generate"
    /\ calls' = [calls EXCEPT !.generate = @ + 1]
    /\ context_chunks' = filtered_chunks
    /\ \/ /\ \E text \in answers :
                LET got == GenerateAnswer(filtered_chunks, text)
                IN  generated' = [answer |-> got.answer, confidence |-> got.confidence,
                                  sources |-> Sources(filtered_chunks)]
          /\ pc' = "insert"
          /\ UNCHANGED response
       \/ /\ calls.generate = 0
          /\ pc' = "generate"
          /\ UNCHANGED <<response, generated>>
       \/ /\ calls.generate > 0
          /\ response' = HTTPException(500, "Failed to generate answer")
          /\ pc' = "done"
          /\ UNCHANGED generated
    /\ UNCHANGED <<dbVars, chat_history, clock, reqVars, user_category_ids, allowed_categories,
                   question_embedding, allowed_doc_ids, top_chunks, filtered_chunks,
                   user_update, ledgerVars>>

\* lines 136-152
AskGenerate(answers) ==
    /\ pc = "generate"
    /\ calls' = [calls EXCEPT !.generate = @ + 1]
    /\ context_chunks' = filtered_chunks
    /\ \/ /\ \E text \in answers :
                LET got == GenerateAnswer(filtered_chunks, text)
                IN  generated' = [answer |-> got.answer, confidence |-> got.confidence,
                                  sources |-> Sources(filtered_chunks)]
          /\ pc' = "insert"
          /\ UNCHANGED response
       \/ /\ response' = HTTPException(500, "Failed to generate answer")
          /\ pc' = "done"
          /\ UNCHANGED generated
    /\ UNCHANGED <<dbVars, chat_history, clock, reqVars, user_category_ids, allowed_categories,
                   question_embedding, allowed_doc_ids, top_chunks, filtered_chunks,
                   user_update, ledgerVars>>

\* mutant: the record is inserted twice
AskInsert_Twice ==
    /\ pc = "insert"
    /\ \/ /\ chat_history' = Append(Append(chat_history,
                ChatRow(current_user.user_id, question.question, generated.answer,
                        generated.confidence, generated.sources)),
                ChatRow(current_user.user_id, question.question, generated.answer,
                        generated.confidence, generated.sources))
          /\ response' = ChatResponse(generated.answer, generated.confidence,
                                      generated.sources)
          /\ next_chat_id' = next_chat_id + 1
       \/ /\ response' = HTTPException(500, "Internal Server Error")
          /\ UNCHANGED <<chat_history, next_chat_id>>
    /\ pc' = "done"
    /\ UNCHANGED <<dbVars, clock, reqVars, locVars, user_update, ledger_before, chatVars>>

\* lines 154-168: the insert is not guarded, so its failure ends the request
AskInsert ==
    /\ pc = "insert"
    /\ \/ /\ chat_history' = Append(chat_history,
                ChatRow(current_user.user_id, question.question, generated.answer,
                        generated.confidence, generated.sources))
          /\ response' = ChatResponse(generated.answer, generated.confidence,
                                      generated.sources)
          /\ next_chat_id' = next_chat_id + 1
       \/ /\ response' = HTTPException(500, "Internal Server Error")
          /\ UNCHANGED <<chat_history, next_chat_id>>
    /\ pc' = "done"
    /\ UNCHANGED <<dbVars, clock, reqVars, locVars, user_update, ledger_before, chatVars>>

\* lines 164-168 and every other return or raise: the request has ended and
\* the next one may arrive; MaxRecords bounds the rows the requests may insert
AskReturn ==
    /\ pc = "done"
    /\ next_chat_id <= MaxRecords
    /\ pc' = "idle"
    /\ current_user' = TokenData("u1")
    /\ question' = ChatQuestion({}, {}, {}, {})
    /\ user_category_ids' = {}
    /\ allowed_categories' = {}
    /\ question_embedding' = <<>>
    /\ allowed_doc_ids' = {}
    /\ top_chunks' = <<>>
    /\ filtered_chunks' = <<>>
    /\ generated' = [answer |-> <<>>, confidence |-> 0, sources |-> <<>>]
    /\ context_chunks' = <<>>
    /\ calls' = NoCalls
    /\ response' = NoResponse
    /\ ledger_before' = <<>>
    /\ UNCHANGED <<dbVars, chat_history, clock, user_update, next_chat_id, chatVars>>

-----------------------------------------------------------------------------
(* routes_chat.py: get_chat_history, submit_feedback, clear_chat_history *)

\* datetime.now() advances
Tick(steps) ==
    /\ \E d \in steps :
          /\ clock + d <= MaxClock
          /\ clock' = clock + d
    /\ UNCHANGED <<dbVars, chat_history, askVars, user_update, ledgerVars>>

\* mutant: the gte("created_at", ...) filter is missing
WithinMonth_Always(row, one_month_ago) == TRUE

\* gte("created_at", one_month_ago)
WithinMonth(row, one_month_ago) == row.created_at >= one_month_ago

\* order("created_at", desc=True)
IsNewestFirst(rows) ==
    \A i, j \in DOMAIN rows : i < j => rows[i].created_at >= rows[j].created_at

RECURSIVE Reorder(_, _, _)
Reorder(rows, f, k) ==
    IF k = 0 THEN <<>> ELSE Append(Reorder(rows, f, k - 1), rows[f[k]])

\* the orders the database may return the rows in: rows of equal created_at
\* come in an order the query does not fix
NewestFirstOrders(rows) ==
    {p \in {Reorder(rows, f, Len(rows)) : f \in Permutations(DOMAIN rows)} :
        IsNewestFirst(p)}

\* the query of line 180
HistoryQuery(user_id, one_month_ago, limit) ==
    LET matching == SelectSeq(chat_history,
                        LAMBDA row : row.user_id = user_id /\ WithinMonth(row, one_month_ago))
    IN  {Truncate(p, limit) : p \in NewestFirstOrders(matching)}

\* now: datetime.now() as read at line 178
NoHistory == [user_id |-> "", limit |-> 0, now |-> 0, chats |-> <<>>]

\* lines 170-187
GetChatHistory(users, limits) ==
    /\ \E u \in users, limit \in limits :
          LET one_month_ago == clock - HistoryDays
          IN  \E chats \in HistoryQuery(u, one_month_ago, limit) :
                 history_result' = [user_id |-> u, limit |-> limit, now |-> clock,
                                    chats |-> chats]
    /\ UNCHANGED <<dbVars, chat_history, clock, askVars, user_update,
                   next_chat_id, ledger_before, feedback_request, feedback_other,
                   document_delete>>

\* before: the feedback the row had when the update was made (history)
NoFeedback ==
    [pc |-> "none", chat_id |-> 0, user_id |-> "", feedback |-> 0, status |-> 0,
     before |-> {}]

\* lines 189-196: ChatFeedback.feedback is declared int, with no other validation
SubmitFeedbackStart(users, chat_ids, values) ==
    /\ feedback_request.pc \in {"none", "done"}
    /\ \E u \in users, chat_id \in chat_ids, value \in values :
          feedback_request' = [pc |-> "select", chat_id |-> chat_id, user_id |-> u,
                               feedback |-> value, status |-> 0, before |-> {}]
    /\ UNCHANGED <<dbVars, chat_history, clock, askVars, user_update,
                   next_chat_id, ledger_before, history_result, feedback_other,
                   document_delete>>

\* mutant: the test of lines 203-204 is missing
NotYourChat_Never(row, user_id) == FALSE

\* line 203
NotYourChat(row, user_id) == row.user_id # user_id

\* lines 198-204
SubmitFeedbackSelect ==
    /\ feedback_request.pc = "select"
    /\ LET chat_result == SelectSeq(chat_history,
                              LAMBDA row : row.id = feedback_request.chat_id)
       IN  feedback_request' =
              IF chat_result = <<>>
              THEN [feedback_request EXCEPT !.pc = "done", !.status = 404]
              ELSE IF NotYourChat(chat_result[1], feedback_request.user_id)
                   THEN [feedback_request EXCEPT !.pc = "done", !.status = 403]
                   ELSE [feedback_request EXCEPT !.pc = "update"]
    /\ UNCHANGED <<dbVars, chat_history, clock, askVars, user_update,
                   next_chat_id, ledger_before, history_result, feedback_other,
                   document_delete>>

\* mutant: the update stamps the row as well
WithFeedback_Stamped(row, value) ==
    [row EXCEPT !.feedback = {value}, !.created_at = row.created_at + 1]

\* mutant: a feedback already given is kept
WithFeedback_FirstWins(row, value) ==
    IF row.feedback = {} THEN [row EXCEPT !.feedback = {value}] ELSE row

\* update({"feedback": feedback.feedback}) on one row
WithFeedback(row, value) == [row EXCEPT !.feedback = {value}]

\* mutant: the update has no eq("id", chat_id)
RECURSIVE UpdateFeedback_AllRows(_, _, _)
UpdateFeedback_AllRows(rows, chat_id, value) ==
    IF rows = <<>> THEN <<>>
    ELSE <<[Head(rows) EXCEPT !.feedback = {value}]>>
            \o UpdateFeedback_AllRows(Tail(rows), chat_id, value)

\* update(...).eq("id", chat_id) on the table
RECURSIVE UpdateFeedback(_, _, _)
UpdateFeedback(rows, chat_id, value) ==
    IF rows = <<>> THEN <<>>
    ELSE <<IF Head(rows).id = chat_id THEN WithFeedback(Head(rows), value) ELSE Head(rows)>>
            \o UpdateFeedback(Tail(rows), chat_id, value)

\* lines 206-209: the update is not guarded, so its failure ends the request
SubmitFeedbackUpdate ==
    /\ feedback_request.pc = "update"
    /\ \/ /\ chat_history' = UpdateFeedback(chat_history, feedback_request.chat_id,
                                           feedback_request.feedback)
          /\ feedback_request' =
                [feedback_request EXCEPT !.pc = "done", !.status = 200,
                    !.before = UNION {chat_history[k].feedback : k \in
                        {j \in DOMAIN chat_history :
                            chat_history[j].id = feedback_request.chat_id}}]
       \/ /\ feedback_request' = [feedback_request EXCEPT !.pc = "done", !.status = 500]
          /\ UNCHANGED chat_history
    /\ UNCHANGED <<dbVars, clock, askVars, user_update,
                   next_chat_id, ledger_before, history_result, feedback_other,
                   document_delete>>

\* the second submit_feedback request, lines 198-204
OtherFeedbackSelect ==
    /\ feedback_other.pc = "select"
    /\ LET chat_result == SelectSeq(chat_history,
                              LAMBDA row : row.id = feedback_other.chat_id)
       IN  feedback_other' =
              IF chat_result = <<>>
              THEN [feedback_other EXCEPT !.pc = "done", !.status = 404]
              ELSE IF NotYourChat(chat_result[1], feedback_other.user_id)
                   THEN [feedback_other EXCEPT !.pc = "done", !.status = 403]
                   ELSE [feedback_other EXCEPT !.pc = "update"]
    /\ UNCHANGED <<dbVars, chat_history, clock, askVars, user_update,
                   next_chat_id, ledger_before, feedback_request, history_result,
                   document_delete>>

\* the second submit_feedback request, lines 206-209
OtherFeedbackUpdate ==
    /\ feedback_other.pc = "update"
    /\ \/ /\ chat_history' = UpdateFeedback(chat_history, feedback_other.chat_id,
                                           feedback_other.feedback)
          /\ feedback_other' = [feedback_other EXCEPT !.pc = "done", !.status = 200]
       \/ /\ feedback_other' = [feedback_other EXCEPT !.pc = "done", !.status = 500]
          /\ UNCHANGED chat_history
    /\ UNCHANGED <<dbVars, clock, askVars, user_update,
                   next_chat_id, ledger_before, feedback_request, history_result,
                   document_delete>>

\* mutant: the delete has no eq("user_id", ...)
ClearChatHistory_Everyone(users) ==
    /\ chat_history' = <<>>
    /\ UNCHANGED <<dbVars, clock, askVars, user_update, ledgerVars>>

\* mutant: only the oldest record of the user is deleted
ClearChatHistory_Oldest(users) ==
    /\ \E u \in users :
          chat_history' = SelectSeq(chat_history, LAMBDA row :
              \/ row.user_id # u
              \/ \E k \in DOMAIN chat_history :
                    chat_history[k].user_id = u /\ chat_history[k].id < row.id)
    /\ UNCHANGED <<dbVars, clock, askVars, user_update, ledgerVars>>

\* lines 211-219
ClearChatHistory(users) ==
    /\ \E u \in users :
          chat_history' = SelectSeq(chat_history, LAMBDA row : row.user_id # u)
    /\ UNCHANGED <<dbVars, clock, askVars, user_update, ledgerVars>>

-----------------------------------------------------------------------------
(* routes_users.py: update_user with category_ids given (admin only) *)

\* before: the categories the user had when the request arrived (history)
NoUpdate == [pc |-> "none", user_id |-> "", category_ids |-> {}, before |-> {}]

\* lines 62-70; one update_user request is followed from its arrival to its end
UpdateUserStart(users) ==
    /\ user_update.pc = "none"
    /\ \E u \in users, cats \in SUBSET Categories :
          user_update' = [pc |-> "delete", user_id |-> u, category_ids |-> cats,
                          before |-> UserCategoryIds(u)]
    /\ UNCHANGED <<dbVars, chat_history, clock, askVars, ledgerVars>>

\* lines 79-81
UpdateUserDelete ==
    /\ user_update.pc = "delete"
    /\ user_categories' = {uc \in user_categories : uc[1] # user_update.user_id}
    /\ user_update' = IF user_update.category_ids # {}
                      THEN [user_update EXCEPT !.pc = "insert"]
                      ELSE [user_update EXCEPT !.pc = "done"]
    /\ UNCHANGED <<document_categories, documents, document_embeddings, chat_history,
                   clock, askVars, ledgerVars>>

\* lines 84-89
UpdateUserInsert ==
    /\ user_update.pc = "insert"
    /\ user_categories' = user_categories
            \cup {<<user_update.user_id, cat_id>> : cat_id \in user_update.category_ids}
    /\ user_update' = [user_update EXCEPT !.pc = "done"]
    /\ UNCHANGED <<document_categories, documents, document_embeddings, chat_history,
                   clock, askVars, ledgerVars>>

-----------------------------------------------------------------------------
(* routes_documents.py: list_documents without query filters, lines 163-176 *)

\* ids: the categories read at line 167
ListDocuments(role, ids) ==
    IF role = "admin"
    THEN documents
    ELSE LET doc_ids == AllowedDocIds(ids)
         IN  IF doc_ids = {} THEN {} ELSE {doc \in documents : doc.id \in doc_ids}

-----------------------------------------------------------------------------
(* routes_documents.py: delete_document, one action per database call *)

NoDelete == [pc |-> "none", document_id |-> "", user_id |-> "", status |-> 0]

\* lines 285-292
DeleteDocumentStart(users, document_ids) ==
    /\ document_delete.pc \in {"none", "done"}
    /\ \E u \in users, d \in document_ids :
          document_delete' = [pc |-> "select", document_id |-> d, user_id |-> u, status |-> 0]
    /\ UNCHANGED <<dbVars, chat_history, clock, askVars, user_update, next_chat_id,
                   ledger_before, feedback_request, history_result, feedback_other>>

\* lines 294-306: the failure of storage.delete_file is caught and logged
DeleteDocumentSelect ==
    /\ document_delete.pc = "select"
    /\ LET doc_result == {doc \in documents : doc.id = document_delete.document_id}
       IN  document_delete' =
              IF doc_result = {}
              THEN [document_delete EXCEPT !.pc = "done", !.status = 404]
              ELSE IF \E doc \in doc_result :
                        /\ doc.uploaded_by # document_delete.user_id
                        /\ Role(document_delete.user_id) # "admin"
                   THEN [document_delete EXCEPT !.pc = "done", !.status = 403]
                   ELSE [document_delete EXCEPT !.pc = "embeddings"]
    /\ UNCHANGED <<dbVars, chat_history, clock, askVars, user_update, next_chat_id,
                   ledger_before, feedback_request, history_result, feedback_other>>

\* mutant: the rows of the document are left in the table
WithoutDocument_Kept(rows, document_id) == rows

\* delete().eq("document_id", document_id) on document_embeddings
WithoutDocument(rows, document_id) ==
    SelectSeq(rows, LAMBDA row : row.document_id # document_id)

\* line 308: the delete is not guarded, so its failure ends the request
DeleteDocumentEmbeddings ==
    /\ document_delete.pc = "embeddings"
    /\ \/ /\ document_embeddings' =
                WithoutDocument(document_embeddings, document_delete.document_id)
          /\ document_delete' = [document_delete EXCEPT !.pc = "categories"]
       \/ /\ document_delete' = [document_delete EXCEPT !.pc = "done", !.status = 500]
          /\ UNCHANGED document_embeddings
    /\ UNCHANGED <<user_categories, document_categories, documents, chat_history, clock,
                   askVars, user_update, next_chat_id, ledger_before, feedback_request,
                   history_result, feedback_other>>

\* line 309
DeleteDocumentCategories ==
    /\ document_delete.pc = "categories"
    /\ \/ /\ document_categories' =
                {dc \in document_categories : dc[1] # document_delete.document_id}
          /\ document_delete' = [document_delete EXCEPT !.pc = "document"]
       \/ /\ document_delete' = [document_delete EXCEPT !.pc = "done", !.status = 500]
          /\ UNCHANGED document_categories
    /\ UNCHANGED <<user_categories, documents, document_embeddings, chat_history, clock,
                   askVars, user_update, next_chat_id, ledger_before, feedback_request,
                   history_result, feedback_other>>

\* line 310
DeleteDocumentRow ==
    /\ document_delete.pc = "document"
    /\ \/ /\ documents' = {doc \in documents : doc.id # document_delete.document_id}
          /\ document_delete' = [document_delete EXCEPT !.pc = "audit"]
       \/ /\ document_delete' = [document_delete EXCEPT !.pc = "done", !.status = 500]
          /\ UNCHANGED documents
    /\ UNCHANGED <<user_categories, document_categories, document_embeddings, chat_history,
                   clock, askVars, user_update, next_chat_id, ledger_before,
                   feedback_request, history_result, feedback_other>>

\* lines 312-320: the audit_log insert, then the response
DeleteDocumentAudit ==
    /\ document_delete.pc = "audit"
    /\ \/ document_delete' = [document_delete EXCEPT !.pc = "done", !.status = 200]
       \/ document_delete' = [document_delete EXCEPT !.pc = "done", !.status = 500]
    /\ UNCHANGED <<dbVars, chat_history, clock, askVars, user_update, next_chat_id,
                   ledger_before, feedback_request, history_result, feedback_other>>

-----------------------------------------------------------------------------
(* Specifications *)

\* No request has arrived.
InitRequests ==
    /\ pc = "idle"
    /\ current_user = TokenData("u1")
    /\ question = ChatQuestion({}, {}, {}, {})
    /\ user_category_ids = {}
    /\ allowed_categories = {}
    /\ question_embedding = <<>>
    /\ allowed_doc_ids = {}
    /\ top_chunks = <<>>
    /\ filtered_chunks = <<>>
    /\ generated = [answer |-> <<>>, confidence |-> 0, sources |-> <<>>]
    /\ context_chunks = <<>>
    /\ response = NoResponse
    /\ user_update = NoUpdate
    /\ ledger_before = <<>>
    /\ feedback_request = NoFeedback
    /\ history_result = NoHistory
    /\ feedback_other = NoFeedback
    /\ document_delete = NoDelete
    /\ calls = NoCalls

InitAsk ==
    /\ chat_history = <<>>
    /\ next_chat_id = 1
    /\ InitRequests

\* Access scenarios: every assignment of two categories to a user and to two
\* documents, an admin with and without a category; the corpus and its
\* embeddings are fixed.
Init ==
    /\ \E mine \in SUBSET ({"u1"} \X Categories), admins \in {{}, {<<"adm", "c1">>}} :
          user_categories = mine \cup admins
    /\ document_categories \in SUBSET (Docs \X Categories)
    /\ documents = {DocRow("d1", "pdf", 2, {}), DocRow("d2", "docx", 2, {})}
    /\ document_embeddings = <<EmbeddingRow("d1", 1, VHigh), EmbeddingRow("d2", 2, VMid),
                               EmbeddingRow("d1", 3, VLow)>>
    /\ clock = 2
    /\ InitAsk

\* Every category filter, and one request with all four filters.
AccessQuestions ==
    {ChatQuestion(cf, {}, {}, {}) : cf \in SUBSET Categories}
        \cup {ChatQuestion({"c1"}, {2}, {2}, {"pdf"})}

AccessQuestionVectors == {VHigh, VUp}

Next ==
    \/ AskStart(Users, AccessQuestions)
    \/ AskUserCategories
    \/ AskEmbedding(AccessQuestionVectors)
    \/ AskDocumentCategories
    \/ AskEmbeddings
    \/ AskNoEvidence
    \/ AskDocuments
    \/ AskGenerate(PlainAnswers)
    \/ AskInsert
    \/ UpdateUserStart(Employees)
    \/ UpdateUserDelete
    \/ UpdateUserInsert

Spec == Init /\ [][Next]_vars

-----------------------------------------------------------------------------
(* Properties of the access stage *)

\* The request has computed allowed_doc_ids, or has answered before needing it.
AccessResolved ==
    \/ pc \in {"embeddings", "no_evidence", "documents", "generate", "insert"}
    \/ pc = "done" /\ response.status = 200

Linked(document_id, categories) ==
    \E c \in categories : <<document_id, c>> \in document_categories

\* C1: a request of a non-admin user who has no category assignment ends with
\* a successful response of confidence 0 and no sources, never with an error,
\* whatever its category filter is.
C1_NoCategoriesAnswer ==
    (pc = "done" /\ current_user.role # "admin" /\ user_category_ids = {})
        => (response.status = 200 /\ response.confidence = 0 /\ response.sources = <<>>)

C1_Witness ==
    /\ pc = "done"
    /\ current_user.role = "medewerker"
    /\ user_category_ids = {}
    /\ question.category_filters = {"c1"}
    /\ response = ChatResponse(MsgNoCategories, 0, <<>>)

\* C2: for a non-admin user, every chunk given to the answer generator and
\* every source returned or recorded belongs to a document that
\* document_categories links to a category the user had in user_categories
\* when the request read it.
C2_AccessScoped ==
    current_user.role # "admin" =>
        /\ \A i \in DOMAIN context_chunks :
              Linked(context_chunks[i].document_id, user_category_ids)
        /\ \A i \in DOMAIN response.sources :
              Linked(response.sources[i].document_id, user_category_ids)
        /\ \A k \in DOMAIN chat_history : \A i \in DOMAIN chat_history[k].source_documents :
              Linked(chat_history[k].source_documents[i].document_id, user_category_ids)

C2_Witness ==
    /\ pc = "done"
    /\ current_user.role = "medewerker"
    /\ user_category_ids = {"c1"}
    /\ question.category_filters = Categories
    /\ <<"d2", "c2">> \in document_categories
    /\ <<"d2", "c1">> \notin document_categories
    /\ Len(context_chunks) = 1
    /\ Len(response.sources) = 1
    /\ Len(chat_history) = 1

\* C3: when the role of the requesting user is admin, the access set of the
\* request is the whole documents table, whatever categories the admin has.
C3_AdminFullAccess ==
    (current_user.role = "admin" /\ AccessResolved)
        => allowed_doc_ids = {doc.id : doc \in documents}

\* C4: the categories used for retrieval are category_filters intersected
\* with the user's categories, or all of the user's categories when that
\* intersection is empty; they are never outside the user's categories, and
\* the documents fetched are the ones linked to them.
C4_CategoryFilter ==
    (pc \notin {"idle", "user_categories"} /\ user_category_ids # {}) =>
        LET wanted == question.category_filters \cap user_category_ids
        IN  /\ allowed_categories = IF wanted # {} THEN wanted ELSE user_category_ids
            /\ allowed_categories \subseteq user_category_ids
            /\ AccessResolved =>
                  allowed_doc_ids = {d \in Docs : Linked(d, allowed_categories)}

C4_Witness ==
    /\ pc = "done"
    /\ response.status = 200
    /\ question.category_filters = {"c1"}
    /\ user_category_ids = {"c2"}
    /\ allowed_categories = {"c2"}
    /\ allowed_doc_ids = {"d2"}

\* The documents some request of a user with these categories fetches.
MayRetrieve(ids) == UNION {AskAccessSet(ids, cf) : cf \in SUBSET Categories}

\* C5: when update_user has only added categories to a non-admin user, every
\* document that ask or list_documents could retrieve for the user before is
\* still one it can retrieve after (document_categories being the same).
C5_AccessMonotonic ==
    LET after == UserCategoryIds(user_update.user_id)
    IN  (/\ user_update.pc = "done"
         /\ Role(user_update.user_id) # "admin"
         /\ user_update.before \subseteq after)
            => /\ MayRetrieve(user_update.before) \subseteq MayRetrieve(after)
               /\ ListDocuments("medewerker", user_update.before)
                      \subseteq ListDocuments("medewerker", after)

C5_Witness ==
    /\ user_update.pc = "done"
    /\ user_update.before = {"c1"}
    /\ UserCategoryIds(user_update.user_id) = Categories
    /\ <<"d1", "c1">> \in document_categories
    /\ <<"d2", "c2">> \in document_categories
    /\ <<"d1", "c2">> \notin document_categories
    /\ <<"d2", "c1">> \notin document_categories
    /\ MayRetrieve({"c1"}) = {"d1"}
    /\ MayRetrieve(Categories) = Docs

-----------------------------------------------------------------------------
(* Ranking scenarios: one user with access to both documents; the table of   *)
(* embeddings is any sequence of at most MaxChunks rows over three vectors,   *)
(* with a first row that may be malformed.                                   *)

RankVectors(i) == IF i = 1 THEN {VHigh, VMid, VZero, VBad} ELSE {VHigh, VMid, VZero}

\* The tables of n rows: the rows alternate between the two documents.
RECURSIVE RankTables(_)
RankTables(n) ==
    IF n = 0 THEN {<<>>}
    ELSE {Append(table, EmbeddingRow(IF n % 2 = 1 THEN "d1" ELSE "d2", n, v)) :
            table \in RankTables(n - 1), v \in RankVectors(n)}

InitRank ==
    /\ user_categories = {<<"u1", "c1">>}
    /\ document_categories = {<<"d1", "c1">>, <<"d2", "c1">>}
    /\ documents = {DocRow("d1", "pdf", 2, {}), DocRow("d2", "docx", 2, {})}
    /\ \E n \in 0..MaxChunks : document_embeddings \in RankTables(n)
    /\ clock = 2
    /\ InitAsk

RankQuestions == {ChatQuestion({}, {}, {}, {})}
RankQuestionVectors == {VHigh, VUp, VZero}

NextRank ==
    \/ AskStart(Employees, RankQuestions)
    \/ AskUserCategories
    \/ AskEmbedding(RankQuestionVectors)
    \/ AskDocumentCategories
    \/ AskEmbeddings
    \/ AskNoEvidence
    \/ AskDocuments
    \/ AskGenerate(PlainAnswers)
    \/ AskInsert

SpecRank == InitRank /\ [][NextRank]_vars

\* C6: the ranked list the request keeps holds only chunks of similarity
\* above 0.7, at most 5 of them, in descending order of similarity.
C6_RankedList ==
    /\ \A i \in DOMAIN top_chunks :
          10 * top_chunks[i].similarity[1] > 7 * top_chunks[i].similarity[2]
    /\ Len(top_chunks) <= 5
    /\ \A i, j \in DOMAIN top_chunks :
          i < j => top_chunks[i].similarity[1] * top_chunks[j].similarity[2]
                      >= top_chunks[j].similarity[1] * top_chunks[i].similarity[2]

C6_Witness ==
    /\ Len(document_embeddings) = 6
    /\ \A i \in 1..6 : document_embeddings[i].embedding \in {VHigh, VMid}
    /\ document_embeddings[1].embedding = VMid
    /\ document_embeddings[6].embedding = VHigh
    /\ question_embedding = VHigh
    /\ Len(top_chunks) = 5
    /\ top_chunks[1].chunk_text = 6

IsZero(vec) == \A i \in DOMAIN vec : vec[i] = 0

\* C7: cosine_similarity is 0, with no division by zero, when either vector is
\* the zero vector, and no row whose embedding is the zero vector is among the
\* ranked chunks.
C7_ZeroVector ==
    question_embedding # <<>> =>
        /\ \A k \in DOMAIN document_embeddings :
              LET e == document_embeddings[k].embedding
              IN  Len(e) = Len(question_embedding) =>
                    /\ CosineSimilarity(question_embedding, e)[2] # 0
                    /\ (IsZero(e) \/ IsZero(question_embedding))
                          => CosineSimilarity(question_embedding, e) = <<0, 1>>
        /\ \A i \in DOMAIN top_chunks :
              ~IsZero(document_embeddings[top_chunks[i].chunk_text].embedding)

C7_Witness ==
    /\ Len(document_embeddings) = 3
    /\ document_embeddings[1].embedding = VZero
    /\ document_embeddings[2].embedding = VHigh
    /\ document_embeddings[3].embedding = VZero
    /\ question_embedding = VUp
    /\ pc = "done"
    /\ Len(top_chunks) = 1

-----------------------------------------------------------------------------
(* Filter scenarios: the metadata of the documents, the order and relevance  *)
(* of three chunks and the filters of the request vary.                      *)

FilterEmbeddings ==
    {<<EmbeddingRow(d1, 1, vs[1]), EmbeddingRow(d2, 2, vs[2]), EmbeddingRow(d3, 3, vs[3])>> :
        d1 \in Docs, d2 \in Docs, d3 \in Docs,
        vs \in {<<VHigh, VMid, VMid>>, <<VMid, VHigh, VMid>>, <<VMid, VMid, VHigh>>,
                <<VLow, VLow, VLow>>}}

FilterQuestions ==
    {ChatQuestion({}, ds, de, ft) : ds \in {{}, {2}}, de \in {{}, {2}}, ft \in {{}, {"pdf"}}}

FilterQuestionVectors == {VHigh}

InitFilter ==
    /\ user_categories \in {{}, {<<"u1", "c1">>}}
    /\ document_categories = {<<"d1", "c1">>, <<"d2", "c1">>}
    /\ \E ft \in FileTypes, up \in Dates, ex1 \in {{}, {1}, {2}}, ex2 \in {{}, {3}} :
          documents = {DocRow("d1", ft, up, ex1), DocRow("d2", "docx", 2, ex2)}
    /\ document_embeddings \in FilterEmbeddings
    /\ clock = 2
    /\ InitAsk

NextFilter ==
    \/ AskStart(Employees, FilterQuestions)
    \/ AskUserCategories
    \/ AskEmbedding(FilterQuestionVectors)
    \/ AskDocumentCategories
    \/ AskEmbeddings
    \/ AskNoEvidence
    \/ AskDocuments
    \/ AskGenerate(PlainAnswers)
    \/ AskInsert

SpecFilter == InitFilter /\ [][NextFilter]_vars

\* The row of the documents table with this id.
DocumentOf(document_id) == CHOOSE doc \in documents : doc.id = document_id

\* The four conditions on a document, as the request states them.
MeetsFilters(doc) ==
    /\ \A start \in question.date_filter_start : doc.upload_date >= start
    /\ \A end \in question.date_filter_end : doc.upload_date <= end
    /\ question.file_type_filters # {} => doc.file_type \in question.file_type_filters
    /\ \A expiry \in doc.expiry_date : expiry >= clock

FirstIndex(chunks, document_id) ==
    CHOOSE i \in DOMAIN chunks :
        /\ chunks[i].document_id = document_id
        /\ \A j \in 1..(i - 1) : chunks[j].document_id # document_id

SourcesOf(chunks, sources) ==
    /\ \A i, j \in DOMAIN sources :
          i # j => sources[i].document_id # sources[j].document_id
    /\ {sources[i].document_id : i \in DOMAIN sources}
          = {chunks[i].document_id : i \in DOMAIN chunks}
    /\ \A i, j \in DOMAIN sources :
          i < j => FirstIndex(chunks, sources[i].document_id)
                      < FirstIndex(chunks, sources[j].document_id)

\* C9: the sources returned and the sources recorded hold no document twice,
\* hold every document that has a chunk in the filtered list, and are in the
\* order in which the documents first occur in that list, which is in
\* descending order of similarity.
C9_Sources ==
    /\ \A i, j \in DOMAIN filtered_chunks :
          i < j => ~FracGt(filtered_chunks[j].similarity, filtered_chunks[i].similarity)
    /\ pc = "insert" => SourcesOf(filtered_chunks, generated.sources)
    /\ (pc = "done" /\ response.status = 200 /\ filtered_chunks # <<>>)
          => SourcesOf(filtered_chunks, response.sources)
    /\ \A k \in DOMAIN chat_history :
          filtered_chunks # <<>>
              => SourcesOf(filtered_chunks, chat_history[k].source_documents)

C9_Witness ==
    /\ pc = "done"
    /\ Len(filtered_chunks) = 3
    /\ filtered_chunks[1].document_id = "d2"
    /\ filtered_chunks[2].document_id = "d1"
    /\ filtered_chunks[3].document_id = "d2"
    /\ Len(response.sources) = 2
    /\ response.sources[1].document_id = "d2"
    /\ response.sources[2].document_id = "d1"
    /\ Len(chat_history) = 1
    /\ chat_history[1].source_documents = response.sources

\* Why a request that ended successfully has nothing to show, from what it read.
EmptyCause ==
    IF user_category_ids = {} THEN "no_categories"
    ELSE IF allowed_doc_ids = {} THEN "no_documents"
    ELSE IF EmbeddingsOf(allowed_doc_ids) = <<>> THEN "not_indexed"
    ELSE IF top_chunks = <<>> THEN "no_evidence"
    ELSE IF filtered_chunks = <<>> THEN "no_match"
    ELSE "answered"

\* What a caller reads from the answer of a response.
CauseRead(resp) ==
    IF resp.answer = MsgNoCategories THEN "no_categories"
    ELSE IF resp.answer = MsgNoEvidence THEN "no_evidence"
    ELSE IF resp.answer = MsgNoMatch THEN "no_match"
    ELSE "other"

\* C10: the responses for "no accessible categories", "no chunk above the
\* relevance floor" and "every ranked chunk removed by the filters" differ
\* pairwise: the caller reads the cause from the answer.
C10_EmptyCausesDistinct ==
    (pc = "done" /\ response.status = 200
        /\ EmptyCause \in {"no_categories", "no_evidence", "no_match"})
            => CauseRead(response) = EmptyCause

C10_Witness ==
    /\ pc = "done"
    /\ response.status = 200
    /\ EmptyCause = "no_match"
    /\ response.confidence = 0
    /\ response.sources = <<>>
    /\ response.answer # MsgNoEvidence
    /\ response.answer # MsgNoCategories

\* The request got its question embedded and ended with nothing retrieved.
RetrievalEmpty ==
    /\ pc = "done"
    /\ question_embedding # <<>>
    /\ EmptyCause \in {"no_documents", "not_indexed", "no_evidence", "no_match"}

\* C11: a request that ends with no document in the user's categories, no
\* embedding stored for the accessible documents, no chunk above the relevance
\* floor or every chunk filtered out returns a successful response with
\* confidence 0 and no sources, never an error.
C11_EmptyOutcomesSucceed ==
    RetrievalEmpty =>
        (response.status = 200 /\ response.confidence = 0 /\ response.sources = <<>>)

-----------------------------------------------------------------------------
(* Scoring scenarios: up to three chunks of two documents with similarities  *)
(* 0.9, 0.85, 0.78, 0.72 and 0.6 to the question, with and without a file    *)
(* type filter, and every answer of the generator.                           *)

ScoreVectors == {V90, V85, V78, V72, V60}

ScoreTables ==
    {<<EmbeddingRow(d1, 1, v1)>> : d1 \in Docs, v1 \in ScoreVectors}
    \cup {<<EmbeddingRow("d1", 1, v1), EmbeddingRow(d2, 2, v2)>> :
            d2 \in Docs, v1 \in ScoreVectors, v2 \in ScoreVectors}
    \cup {<<EmbeddingRow("d1", 1, v1), EmbeddingRow(d2, 2, v2), EmbeddingRow("d2", 3, v3)>> :
            d2 \in Docs, v1 \in ScoreVectors, v2 \in ScoreVectors, v3 \in ScoreVectors}

InitScore ==
    /\ user_categories = {<<"u1", "c1">>}
    /\ document_categories = {<<"d1", "c1">>, <<"d2", "c1">>}
    /\ documents = {DocRow("d1", "pdf", 2, {}), DocRow("d2", "docx", 2, {})}
    /\ document_embeddings \in ScoreTables
    /\ clock = 2
    /\ InitAsk

ScoreQuestions == {ChatQuestion({}, {}, {}, {}), ChatQuestion({}, {}, {}, {"pdf"})}
ScoreQuestionVectors == {VUnit}

NextScore ==
    \/ AskStart(Employees, ScoreQuestions)
    \/ AskUserCategories
    \/ AskEmbedding(ScoreQuestionVectors)
    \/ AskDocumentCategories
    \/ AskEmbeddings
    \/ AskNoEvidence
    \/ AskDocuments
    \/ AskGenerate(Answers)
    \/ AskInsert

SpecScore == InitScore /\ [][NextScore]_vars

\* The generator has answered on context_chunks; generated holds its result.
Answered == pc = "insert" \/ (pc = "done" /\ generated.answer # <<>>)

\* The answer holds one of the four phrases, whatever the case of its letters.
HasUncertaintyPhrase(answer) ==
    \E phrase \in UncertaintyPhrases : Contains(Lower(answer), phrase)

\* The mean of the similarities of the chunks, as a fraction.
MeanSimilarity(chunks) ==
    LET total == FracSum([i \in DOMAIN chunks |-> chunks[i].similarity])
    IN  <<total[1], total[2] * Len(chunks)>>

\* tenths is mean * 100 rounded to one decimal: no tenth is nearer to it.
IsRoundedPercent(tenths, mean) ==
    2 * Abs(tenths * mean[2] - 1000 * mean[1]) <= mean[2]

\* C12: when the answer holds no uncertainty phrase, the confidence of the
\* generated answer, of the response and of the record is the mean similarity
\* of the chunks given to the generator, times 100, rounded to one decimal;
\* a mean of 0.9 gives 90.0.
C12_Confidence ==
    (Answered /\ ~HasUncertaintyPhrase(generated.answer)) =>
        /\ IsRoundedPercent(generated.confidence, MeanSimilarity(context_chunks))
        /\ MeanSimilarity(context_chunks)[1] * 10 = 9 * MeanSimilarity(context_chunks)[2]
              => generated.confidence = 900
        /\ (pc = "done" /\ response.status = 200)
              => /\ response.confidence = generated.confidence
                 /\ chat_history[Len(chat_history)].confidence_score = generated.confidence

C12_Witness ==
    /\ pc = "done"
    /\ response.status = 200
    /\ Len(top_chunks) = 3
    /\ Len(context_chunks) = 1
    /\ question.file_type_filters # {}
    /\ generated.answer = PlainAnswer
    /\ response.confidence = 900
    /\ chat_history[1].confidence_score = 900

\* The answers with which the generator says that it cannot answer.
SignalsUncertainty(answer) ==
    \/ HasUncertaintyPhrase(answer)
    \/ answer = <<"Ik", "weet", "het", "niet">>

\* C13: when the answer signals that the generator could not answer, the
\* confidence is at most 30.0 whatever the mean similarity is; so it is for a
\* mean of 0.9 and the answer "Ik weet het niet".
C13_UncertainClamped ==
    (Answered /\ SignalsUncertainty(generated.answer)) => generated.confidence <= 300

\* The chunks are two of d1 with similarities 0.85 and 0.78 and one of d2
\* with similarity 0.72.
IsSimilarity(chunk, hundredths) == chunk.similarity[1] * 100 = hundredths * chunk.similarity[2]

EndToEndScenario ==
    /\ pc = "done"
    /\ response.status = 200
    /\ Len(top_chunks) = 3
    /\ Len(filtered_chunks) = Len(top_chunks)
    /\ top_chunks[1].document_id = "d1" /\ IsSimilarity(top_chunks[1], 85)
    /\ top_chunks[2].document_id = "d1" /\ IsSimilarity(top_chunks[2], 78)
    /\ top_chunks[3].document_id = "d2" /\ IsSimilarity(top_chunks[3], 72)
    /\ ~HasUncertaintyPhrase(response.answer)

SourceIds(sources) == [i \in DOMAIN sources |-> sources[i].document_id]

\* C14 as stated: in the scenario the response has the sources d1, d2 in
\* that order and the confidence 78.0.
C14_EndToEnd_Stated ==
    EndToEndScenario =>
        (SourceIds(response.sources) = <<"d1", "d2">> /\ response.confidence = 780)

\* C14: in the scenario the response has the sources d1, d2 in that order
\* and the confidence 78.3, the mean (0.85 + 0.78 + 0.72) / 3 = 0.7833...
\* times 100 rounded to one decimal.
C14_EndToEnd ==
    EndToEndScenario =>
        (SourceIds(response.sources) = <<"d1", "d2">> /\ response.confidence = 783)

C14_Witness ==
    /\ EndToEndScenario
    /\ document_embeddings[1].embedding = V78
    /\ document_embeddings[2].embedding = V85
    /\ document_embeddings[3].embedding = V72
    /\ Len(response.sources) = 2
    /\ response.confidence = 783

\* C15: when the insert into chat_history fails after the answer has been
\* generated, the request still returns the generated answer, confidence and
\* sources: once the generator has answered, the request ends with them.
C15_LedgerFailureTolerated ==
    (pc = "done" /\ generated.answer # <<>>) =>
        response = ChatResponse(generated.answer, generated.confidence, generated.sources)

-----------------------------------------------------------------------------
(* Ledger scenarios: two users with the same access ask one question after   *)
(* another, read and clear their histories while time passes.                *)

InitLedger ==
    /\ user_categories = {<<"u1", "c1">>, <<"adm", "c1">>}
    /\ document_categories = {<<"d1", "c1">>}
    /\ documents = {DocRow("d1", "pdf", 2, {})}
    /\ document_embeddings = <<EmbeddingRow("d1", 1, VHigh)>>
    /\ clock = 2
    /\ InitAsk

LedgerQuestionVectors == {VHigh, VLow}
TickSteps == {HistoryDays, HistoryDays + 1}
Limits == {1, 50}

NextHistory ==
    \/ AskStart(Users, RankQuestions)
    \/ AskUserCategories
    \/ AskEmbedding(LedgerQuestionVectors)
    \/ AskDocumentCategories
    \/ AskEmbeddings
    \/ AskNoEvidence
    \/ AskDocuments
    \/ AskGenerate(PlainAnswers)
    \/ AskInsert
    \/ AskReturn
    \/ Tick(TickSteps)
    \/ GetChatHistory(Users, Limits)
    \/ ClearChatHistory(Users)

SpecHistory == InitLedger /\ [][NextHistory]_vars

ChatIds == 1..(MaxRecords + 1)
FeedbackValues == {1, -1, 0}

\* Every question of the feedback scenarios finds its evidence.
FeedbackQuestionVectors == {VHigh}

NextFeedback ==
    \/ AskStart(Employees, RankQuestions)
    \/ AskUserCategories
    \/ AskEmbedding(FeedbackQuestionVectors)
    \/ AskDocumentCategories
    \/ AskEmbeddings
    \/ AskDocuments
    \/ AskGenerate(PlainAnswers)
    \/ AskInsert
    \/ AskReturn
    \/ SubmitFeedbackStart(Users, ChatIds, FeedbackValues)
    \/ SubmitFeedbackSelect
    \/ SubmitFeedbackUpdate
    \/ ClearChatHistory(Employees)

SpecFeedback == InitLedger /\ [][NextFeedback]_vars

\* The request ended because the embedding or the generation call failed.
UpstreamFailure ==
    /\ pc = "done"
    /\ response.status = 500
    /\ response.detail \in {"Failed to process question", "Failed to generate answer"}

ChatIdsOf(rows) == {rows[k].id : k \in DOMAIN rows}

\* C16: when the embedding call or the generation call of a request fails, the
\* request ends with an error and chat_history holds no record that it did
\* not hold when the request arrived.
C16_UpstreamFailure ==
    UpstreamFailure =>
        /\ ChatIdsOf(chat_history) \subseteq ChatIdsOf(ledger_before)
        /\ \A k \in DOMAIN chat_history : \E j \in DOMAIN ledger_before :
              chat_history[k] = ledger_before[j]

C16_Witness ==
    /\ UpstreamFailure
    /\ response.detail = "Failed to generate answer"
    /\ Len(ledger_before) = 1
    /\ chat_history = ledger_before

\* C17: get_chat_history returns only records of the caller that were
\* created at most 30 days before the request, newest first, and at most
\* limit of them.
C17_History ==
    /\ \A i \in DOMAIN history_result.chats :
          /\ history_result.chats[i].user_id = history_result.user_id
          /\ history_result.now - history_result.chats[i].created_at <= 30
    /\ \A i, j \in DOMAIN history_result.chats :
          i < j => history_result.chats[i].created_at >= history_result.chats[j].created_at
    /\ Len(history_result.chats) <= history_result.limit

C17_Witness ==
    /\ Len(chat_history) = 2
    /\ chat_history[1].user_id = "u1"
    /\ chat_history[2].user_id = "u1"
    /\ history_result.user_id = "u1"
    /\ history_result.limit = 50
    /\ history_result.now = clock
    /\ clock - chat_history[1].created_at = 31
    /\ clock - chat_history[2].created_at = 0
    /\ history_result.chats = <<chat_history[2]>>

\* The rows of chat_history with this id.
ChatsWithId(chat_id) == {k \in DOMAIN chat_history : chat_history[k].id = chat_id}

\* C18: a submit_feedback request for an id that no record has ends with 404,
\* one for a record of another user ends with 403, and neither changes
\* chat_history.
C18_FeedbackRefused ==
    [][(feedback_request.pc = "select" /\ feedback_request' # feedback_request) =>
          LET found == ChatsWithId(feedback_request.chat_id)
          IN  /\ found = {} =>
                    /\ feedback_request'.pc = "done"
                    /\ feedback_request'.status = 404
                    /\ chat_history' = chat_history
              /\ (found # {} /\ \A k \in found :
                        chat_history[k].user_id # feedback_request.user_id) =>
                    /\ feedback_request'.pc = "done"
                    /\ feedback_request'.status = 403
                    /\ chat_history' = chat_history]_vars

C18_Witness ==
    /\ feedback_request.pc = "done"
    /\ feedback_request.status = 403
    /\ feedback_request.user_id = "adm"
    /\ \E k \in ChatsWithId(feedback_request.chat_id) :
          chat_history[k].user_id = "u1" /\ chat_history[k].feedback = {1}

\* C19: a successful submit_feedback request leaves the submitted value in
\* the feedback field of the record, whatever the field held, and changes
\* nothing else; when the field held that value already, chat_history is
\* left as it was.
C19_LastWriteWins ==
    /\ [](feedback_request.pc = "done" /\ feedback_request.status = 200 =>
            \A k \in ChatsWithId(feedback_request.chat_id) :
                chat_history[k].feedback = {feedback_request.feedback})
    /\ [][(feedback_request.pc = "update" /\ feedback_request'.status = 200) =>
            /\ Len(chat_history') = Len(chat_history)
            /\ \A k \in DOMAIN chat_history :
                  IF chat_history[k].id = feedback_request.chat_id
                  THEN chat_history'[k] =
                          [chat_history[k] EXCEPT !.feedback = {feedback_request.feedback}]
                  ELSE chat_history'[k] = chat_history[k]
            /\ (\A k \in ChatsWithId(feedback_request.chat_id) :
                    chat_history[k].feedback = {feedback_request.feedback})
                  => chat_history' = chat_history]_vars

C19_Witness ==
    /\ feedback_request.pc = "done"
    /\ feedback_request.status = 200
    /\ feedback_request.feedback = -1
    /\ feedback_request.before = {1}
    /\ \E k \in ChatsWithId(feedback_request.chat_id) : chat_history[k].feedback = {-1}

\* C20: the feedback field of every record of chat_history is absent, +1 or -1.
C20_FeedbackValues ==
    \A k \in DOMAIN chat_history :
        chat_history[k].feedback = {} \/ chat_history[k].feedback = {1}
            \/ chat_history[k].feedback = {-1}

-----------------------------------------------------------------------------
(* Ownership scenarios: both users ask, give feedback on any record and      *)
(* clear their histories.                                                    *)

ThumbValues == {1, -1}

NextOwners ==
    \/ AskStart(Users, RankQuestions)
    \/ AskUserCategories
    \/ AskEmbedding(FeedbackQuestionVectors)
    \/ AskDocumentCategories
    \/ AskEmbeddings
    \/ AskDocuments
    \/ AskGenerate(PlainAnswers)
    \/ AskInsert
    \/ AskReturn
    \/ SubmitFeedbackStart(Users, ChatIds, ThumbValues)
    \/ SubmitFeedbackSelect
    \/ SubmitFeedbackUpdate
    \/ ClearChatHistory(Users)

SpecOwners == InitLedger /\ [][NextOwners]_vars

\* The records of a user, in the order of the table.
OwnedBy(rows, user_id) == SelectSeq(rows, LAMBDA row : row.user_id = user_id)

\* C21: in every step, a record of chat_history is either kept with its
\* user_id, question, answer, confidence_score, source_documents and
\* created_at, or removed together with every other record of its owner; its
\* feedback changes only in the update of a submit_feedback request for its id.
C21_OnlyFeedbackChanges ==
    [][\A k \in DOMAIN chat_history :
          LET row == chat_history[k]
              kept == {j \in DOMAIN chat_history' : chat_history'[j].id = row.id}
          IN  IF kept = {}
              THEN OwnedBy(chat_history', row.user_id) = <<>>
              ELSE \A j \in kept :
                      /\ chat_history'[j] = [row EXCEPT !.feedback = chat_history'[j].feedback]
                      /\ chat_history'[j].feedback # row.feedback =>
                            /\ feedback_request.pc = "update"
                            /\ feedback_request.chat_id = row.id]_vars

C21_Witness ==
    /\ next_chat_id = 3
    /\ Len(chat_history) = 1
    /\ feedback_request.pc = "done"
    /\ feedback_request.status = 200
    /\ feedback_request.before = {1}
    /\ chat_history[1].id = feedback_request.chat_id
    /\ chat_history[1].feedback = {-1}
    /\ chat_history[1].answer = PlainAnswer
    /\ chat_history[1].confidence_score = 1000
    /\ chat_history[1].created_at = 2

\* C22: a clear_chat_history request of a user leaves no record of that user
\* in chat_history and leaves the records of every other user as they were.
C22_Clear ==
    [][\A u \in Users :
          ClearChatHistory({u}) =>
              /\ OwnedBy(chat_history', u) = <<>>
              /\ \A other \in Users \ {u} :
                    OwnedBy(chat_history', other) = OwnedBy(chat_history, other)]_vars

C22_Witness ==
    /\ next_chat_id = 3
    /\ Len(chat_history) = 1
    /\ chat_history[1].id = 2
    /\ chat_history[1].user_id = "adm"
    /\ chat_history[1].feedback = {1}
    /\ feedback_request.pc = "done"
    /\ feedback_request.status = 200
    /\ feedback_request.user_id = "u1"
    /\ feedback_request.chat_id = 1

-----------------------------------------------------------------------------
(* Contention scenarios: chat_history holds records of the admin; the other  *)
(* user asks, gives feedback on any record and clears their history.         *)

\* A record of a question of the admin that found no evidence (lines 91-97).
AdminRow(id, feedback) ==
    [id |-> id, user_id |-> "adm", question |-> "q", answer |-> MsgNoEvidenceStored,
     confidence_score |-> 0, source_documents |-> <<>>, feedback |-> feedback,
     created_at |-> 2]

AdminLedgers ==
    {<<AdminRow(1, f1), AdminRow(2, f2)>> : f1 \in {{}, {1}}, f2 \in {{}, {-1}}}

InitContend ==
    /\ user_categories = {<<"u1", "c1">>, <<"adm", "c1">>}
    /\ document_categories = {<<"d1", "c1">>}
    /\ documents = {DocRow("d1", "pdf", 2, {})}
    /\ document_embeddings = <<EmbeddingRow("d1", 1, VHigh)>>
    /\ clock = 2
    /\ chat_history \in AdminLedgers
    /\ next_chat_id = 3
    /\ InitRequests

NextContend ==
    \/ AskStart(Employees, RankQuestions)
    \/ AskUserCategories
    \/ AskEmbedding(LedgerQuestionVectors)
    \/ AskDocumentCategories
    \/ AskEmbeddings
    \/ AskNoEvidence
    \/ AskDocuments
    \/ AskGenerate(PlainAnswers)
    \/ AskInsert
    \/ SubmitFeedbackStart(Employees, ChatIds, FeedbackValues)
    \/ SubmitFeedbackSelect
    \/ SubmitFeedbackUpdate
    \/ ClearChatHistory(Employees)

SpecContend == InitContend /\ [][NextContend]_vars

\* C23: no step of an ask, submit_feedback or clear_chat_history request of
\* user u1 adds, changes or removes a record of the other user.
C23_NoContention ==
    [][OwnedBy(chat_history', "adm") = OwnedBy(chat_history, "adm")]_vars

C23_Witness ==
    /\ next_chat_id = 4
    /\ OwnedBy(chat_history, "u1") = <<>>
    /\ Len(OwnedBy(chat_history, "adm")) = 2
    /\ feedback_request.pc = "done"
    /\ feedback_request.user_id = "u1"
    /\ feedback_request.chat_id = 2
    /\ feedback_request.status = 403
    /\ pc = "done"
    /\ response.status = 200

-----------------------------------------------------------------------------
(* Concurrent feedback: two submit_feedback requests of the same user for    *)
(* two different records of theirs have arrived; their steps interleave.     *)

\* A record of an answered question of u1.
UserRow(id, feedback) ==
    [id |-> id, user_id |-> "u1", question |-> "q", answer |-> PlainAnswer,
     confidence_score |-> 1000,
     source_documents |-> <<[document_id |-> "d1", document_title |-> <<"title", "d1">>,
                             document_url |-> <<"url", "d1">>, file_type |-> "pdf"]>>,
     feedback |-> feedback, created_at |-> 2]

UserLedger == <<UserRow(1, {}), UserRow(2, {1})>>

ArrivedFeedback(chat_id, value) ==
    [pc |-> "select", chat_id |-> chat_id, user_id |-> "u1", feedback |-> value,
     status |-> 0, before |-> {}]

InitConcurrent ==
    /\ user_categories = {<<"u1", "c1">>, <<"adm", "c1">>}
    /\ document_categories = {<<"d1", "c1">>}
    /\ documents = {DocRow("d1", "pdf", 2, {})}
    /\ document_embeddings = <<EmbeddingRow("d1", 1, VHigh)>>
    /\ clock = 2
    /\ chat_history = UserLedger
    /\ next_chat_id = 3
    /\ pc = "idle"
    /\ current_user = TokenData("u1")
    /\ question = ChatQuestion({}, {}, {}, {})
    /\ user_category_ids = {}
    /\ allowed_categories = {}
    /\ question_embedding = <<>>
    /\ allowed_doc_ids = {}
    /\ top_chunks = <<>>
    /\ filtered_chunks = <<>>
    /\ generated = [answer |-> <<>>, confidence |-> 0, sources |-> <<>>]
    /\ context_chunks = <<>>
    /\ response = NoResponse
    /\ user_update = NoUpdate
    /\ ledger_before = <<>>
    /\ history_result = NoHistory
    /\ document_delete = NoDelete
    /\ calls = NoCalls
    /\ \E first \in 1..2, value \in FeedbackValues, other \in FeedbackValues :
          /\ feedback_request = ArrivedFeedback(first, value)
          /\ feedback_other = ArrivedFeedback(3 - first, other)

\* the steps of the first request leave the second one alone, and the other
\* way round
NextConcurrent ==
    \/ SubmitFeedbackSelect
    \/ SubmitFeedbackUpdate
    \/ OtherFeedbackSelect
    \/ OtherFeedbackUpdate

SpecConcurrent == InitConcurrent /\ [][NextConcurrent]_vars

\* The feedback a record holds after the two requests, run one after the
\* other: the value of the request for it, when that request succeeded.
FeedbackAfterBoth(id) ==
    IF feedback_request.chat_id = id /\ feedback_request.status = 200
    THEN {feedback_request.feedback}
    ELSE IF feedback_other.chat_id = id /\ feedback_other.status = 200
         THEN {feedback_other.feedback}
         ELSE UserLedger[id].feedback

\* C24: when two submit_feedback requests of a user for two different records
\* of theirs have ended, whatever the order of their steps was, neither was
\* refused (each succeeded unless its own update raised) and chat_history is
\* what running them one after the other gives: each record holds the value
\* submitted for it and nothing else has changed.
C24_IndependentFeedback ==
    (feedback_request.pc = "done" /\ feedback_other.pc = "done") =>
        /\ feedback_request.status \in {200, 500}
        /\ feedback_other.status \in {200, 500}
        /\ chat_history = <<[UserLedger[1] EXCEPT !.feedback = FeedbackAfterBoth(1)],
                            [UserLedger[2] EXCEPT !.feedback = FeedbackAfterBoth(2)]>>

C24_Witness ==
    /\ feedback_request.pc = "done" /\ feedback_request.status = 200
    /\ feedback_other.pc = "done" /\ feedback_other.status = 200
    /\ feedback_request.chat_id = 2 /\ feedback_request.feedback = -1
    /\ feedback_other.chat_id = 1 /\ feedback_other.feedback = 1
    /\ chat_history[1].feedback = {1}
    /\ chat_history[2].feedback = {-1}

-----------------------------------------------------------------------------
(* Ask scenarios: the two users ask one question after another; nothing else *)
(* touches the ledger, so the rows a request adds can be counted.            *)

NextAsk ==
    \/ AskStart(Users, RankQuestions)
    \/ AskUserCategories
    \/ AskEmbedding(LedgerQuestionVectors)
    \/ AskDocumentCategories
    \/ AskEmbeddings
    \/ AskNoEvidence
    \/ AskDocuments
    \/ AskGenerate(Answers)
    \/ AskInsert
    \/ AskReturn

SpecAsk == InitLedger /\ [][NextAsk]_vars

\* the rows the request in flight has added to chat_history
Inserted == Len(chat_history) - Len(ledger_before)

\* the generator has returned an answer for the request in flight
GeneratorAnswered == pc \in {"insert", "done"} /\ calls.generate = 1 /\ generated.answer # <<>>

-----------------------------------------------------------------------------
(* Deletion scenarios: documents are deleted while a question is answered.   *)

InitDelete ==
    /\ user_categories = {<<"u1", "c1">>, <<"adm", "c1">>}
    /\ document_categories = {<<"d1", "c1">>, <<"d2", "c1">>}
    /\ documents = {DocRow("d1", "pdf", 2, {}), DocRow("d2", "pdf", 2, {})}
    /\ document_embeddings = <<EmbeddingRow("d1", 1, VHigh), EmbeddingRow("d2", 2, VHigh)>>
    /\ clock = 2
    /\ InitAsk

DeleteQuestionVectors == {VHigh}

NextDelete ==
    \/ AskStart(Employees, RankQuestions)
    \/ AskUserCategories
    \/ AskEmbedding(DeleteQuestionVectors)
    \/ AskDocumentCategories
    \/ AskEmbeddings
    \/ AskDocuments
    \/ AskGenerate(PlainAnswers)
    \/ AskInsert
    \/ DeleteDocumentStart(Users, Docs)
    \/ DeleteDocumentSelect
    \/ DeleteDocumentEmbeddings
    \/ DeleteDocumentCategories
    \/ DeleteDocumentRow
    \/ DeleteDocumentAudit

SpecDelete == InitDelete /\ [][NextDelete]_vars

EmbeddedDocs == {document_embeddings[i].document_id : i \in DOMAIN document_embeddings}

\* C26: once delete_document(d) has ended successfully, no document_embeddings
\* row and no document_categories row references d; and at every moment each
\* document_embeddings row still has its document row, so the embeddings of a
\* document are gone no later than the document row itself.
C26_EmbeddingsDeletedWithDocument ==
    /\ (document_delete.pc = "done" /\ document_delete.status = 200) =>
          /\ document_delete.document_id \notin EmbeddedDocs
          /\ \A dc \in document_categories : dc[1] # document_delete.document_id
          /\ \A doc \in documents : doc.id # document_delete.document_id
    /\ \A d \in EmbeddedDocs : \E doc \in documents : doc.id = d

C26_Witness ==
    /\ document_delete.pc = "done"
    /\ document_delete.status = 200
    /\ document_delete.document_id = "d1"
    /\ document_delete.user_id = "adm"
    /\ EmbeddedDocs = {"d2"}
    /\ document_categories = {<<"d2", "c1">>}
    /\ {doc.id : doc \in documents} = {"d2"}

-----------------------------------------------------------------------------
(* Determinism of the ranking *)

\* In the ranking scenarios chunk_text is the position of the row in the
\* fetched sequence. a goes before b: higher similarity, or equal similarity
\* and fetched earlier.
RanksBefore(a, b) ==
    \/ FracGt(a.similarity, b.similarity)
    \/ /\ ~FracGt(b.similarity, a.similarity)
       /\ a.chunk_text < b.chunk_text

\* C27: the ranked list is fixed by the question vector and the fetched
\* sequence alone: its chunks are in descending similarity with chunks of
\* equal similarity in fetched order, and a chunk above the floor is left out
\* only when the list is full and every chunk of it ranks before that chunk.
C27_StableRanking ==
    (pc \in {"documents", "generate", "insert", "done"} /\ top_chunks # <<>>) =>
        LET candidates == ChunkSimilarities(question_embedding, EmbeddingsOf(allowed_doc_ids))
        IN  /\ \A i, j \in DOMAIN top_chunks :
                  i < j => RanksBefore(top_chunks[i], top_chunks[j])
            /\ \A k \in DOMAIN candidates :
                  \/ \E i \in DOMAIN top_chunks : top_chunks[i] = candidates[k]
                  \/ /\ Len(top_chunks) = TopK
                     /\ \A i \in DOMAIN top_chunks : RanksBefore(top_chunks[i], candidates[k])

C27_Witness ==
    /\ pc = "documents"
    /\ Len(document_embeddings) = TopK + 1
    /\ \A k \in DOMAIN document_embeddings : document_embeddings[k].embedding = VHigh
    /\ question_embedding = VHigh
    /\ Len(top_chunks) = TopK
    /\ \A i \in DOMAIN top_chunks : top_chunks[i].chunk_text = i

-----------------------------------------------------------------------------
(* The record against the response *)

\* C28: when an ask request has written a chat record, the answer and the
\* confidence of that record are the answer and the confidence of the
\* response of the same request.
C28_RecordMatchesResponse ==
    (pc = "done" /\ response.status = 200 /\ Inserted = 1) =>
        /\ chat_history[Len(chat_history)].answer = response.answer
        /\ chat_history[Len(chat_history)].confidence_score = response.confidence

-----------------------------------------------------------------------------
(* Calls of the providers *)

EmptyResultAnswers == {MsgNoCategories, MsgNoDocuments, MsgNotIndexed, MsgNoEvidence, MsgNoMatch}

\* C29: within one ask request generate_embedding is called at most once and
\* generate_answer at most once; generate_answer is called only with a
\* non-empty list of chunks that survived ranking and filtering; a request
\* that ends with one of the empty-result answers has not called it; and a
\* failed call ends the request with an error instead of being repeated.
C29_NoRetry ==
    /\ calls.embedding \in {0, 1}
    /\ calls.generate \in {0, 1}
    /\ calls.generate = 1 =>
          /\ calls.embedding = 1
          /\ top_chunks # <<>>
          /\ filtered_chunks # <<>>
          /\ context_chunks = filtered_chunks
    /\ (pc = "done" /\ response.status = 200 /\ response.answer \in EmptyResultAnswers) =>
          calls.generate = 0
    /\ (calls.embedding = 1 /\ question_embedding = <<>>) =>
          (pc = "done" /\ response.status = 500 /\ calls.generate = 0)
    /\ (calls.generate = 1 /\ generated.answer = <<>>) =>
          (pc = "done" /\ response.status = 500)

C29_Witness ==
    /\ pc = "done"
    /\ response.status = 500
    /\ calls = [embedding |-> 1, generate |-> 1]
    /\ filtered_chunks # <<>>
    /\ generated.answer = <<>>
    /\ chat_history = <<>>

-----------------------------------------------------------------------------
(* A document deleted under a question in flight *)

DocIdsOf(rows) == {rows[i].document_id : i \in DOMAIN rows}

\* The sources of the response and of the record the request wrote come from
\* the chunks that passed the metadata fetch.
SourcesFromFetch ==
    /\ DocIdsOf(generated.sources) \subseteq DocIdsOf(filtered_chunks)
    /\ DocIdsOf(response.sources) \subseteq DocIdsOf(filtered_chunks)
    /\ (pc = "done" /\ response.status = 200 /\ Inserted = 1) =>
          DocIdsOf(chat_history[Len(chat_history)].source_documents)
              \subseteq DocIdsOf(filtered_chunks)

\* The metadata fetch of lines 105-134 keeps only chunks whose document row
\* is in the table at that moment, and does not fail when a row is missing.
FetchDropsMissing ==
    (pc = "documents" /\ pc' # "documents") =>
        /\ \A d \in DocIdsOf(filtered_chunks') : \E doc \in documents : doc.id = d
        /\ response'.status # 500
        /\ pc' = IF filtered_chunks' = <<>> THEN "done" ELSE "generate"

\* C30: when a document is deleted after an ask has fetched its embeddings
\* and before the ask fetches the metadata, the ask drops the chunks whose
\* document row is missing instead of failing, and no source it returns or
\* records names a document that was absent at the metadata fetch.
C30_DeletedDocumentDropped == [](SourcesFromFetch) /\ [][FetchDropsMissing]_vars

C30_Witness ==
    /\ pc = "done"
    /\ response.status = 200
    /\ "d1" \in DocIdsOf(top_chunks)
    /\ \A doc \in documents : doc.id # "d1"
    /\ DocIdsOf(filtered_chunks) = {"d2"}
    /\ DocIdsOf(response.sources) = {"d2"}
    /\ Inserted = 1
    /\ DocIdsOf(chat_history[1].source_documents) = {"d2"}

====
